---- MODULE Spec2Model ----
(***************************************************************************)
(* Thermocouple conversion (typek.py): the Interpolate engine, the         *)
(* range-checked ThermocoupleMixin wrappers and the TypeK calibration      *)
(* table.                                                                  *)
(*                                                                         *)
(* Real numbers are exact rationals <<n, d>> in lowest terms with d > 0,   *)
(* so that every arithmetic expression of the source is computed as        *)
(* written and equality of values is equality of tuples.  Millivolt        *)
(* literals of the table are written in microvolts and divided by 1000.    *)
(***************************************************************************)
EXTENDS Integers, Sequences, FiniteSets, TLC

\* x_interval, x_array, y_array: the fields of the converter's Interpolate object;
\* calls: the calls made on the object so far, each with its arguments and outcome
VARIABLES x_interval, x_array, y_array, calls

vars == <<x_interval, x_array, y_array, calls>>

----------------------------------------------------------------------------
(* Exact rational arithmetic *)

Abs(n) == IF n < 0 THEN -n ELSE n

RECURSIVE GCD(_, _)
GCD(a, b) == IF b = 0 THEN a ELSE GCD(b, a % b)

Norm(n, d) ==
    LET g == GCD(Abs(n), d)
    IN  <<n \div g, d \div g>>

RInt(n) == <<n, 1>>

Frac(n, d) == Norm(n, d)

RNeg(a) == <<-a[1], a[2]>>

RAdd(a, b) ==
    LET g == GCD(a[2], b[2])
        l == (a[2] \div g) * b[2]
    IN  Norm(a[1] * (l \div a[2]) + b[1] * (l \div b[2]), l)

RSub(a, b) == RAdd(a, RNeg(b))

RMul(a, b) ==
    LET g1 == GCD(Abs(a[1]), b[2])
        g2 == GCD(Abs(b[1]), a[2])
    IN  Norm((a[1] \div g1) * (b[1] \div g2), (a[2] \div g2) * (b[2] \div g1))

\* b # 0
RDiv(a, b) ==
    IF b[1] < 0 THEN RMul(a, <<-b[2], -b[1]>>) ELSE RMul(a, <<b[2], b[1]>>)

RLt(a, b) ==
    LET g == GCD(a[2], b[2])
    IN  a[1] * (b[2] \div g) < b[1] * (a[2] \div g)

RLe(a, b) == a = b \/ RLt(a, b)

\* floor of a rational, an integer
RFloor(a) == a[1] \div a[2]

\* Python's a // b on numbers: the floor of the quotient
RFloorDiv(a, b) == RFloor(RDiv(a, b))

\* Python's a % b for b > 0: a - b * floor(a / b), in [0, b)
RMod(a, b) == RSub(a, RMul(b, RInt(RFloorDiv(a, b))))

----------------------------------------------------------------------------
(* Outcomes of a call: a returned number or a raised exception *)

Value(v) == [kind |-> "value", val |-> v]

\* RangeError('{}mV out of range.'.format(v)): the message carries v
RangeError(v) == [kind |-> "RangeError", val |-> v]

\* list index out of range, raised by the list subscript
IndexError == [kind |-> "IndexError", val |-> <<0, 1>>]

\* Python list subscript a[i] is defined for -len(a) <= i < len(a),
\* a negative i counting from the end
PyInRange(a, i) == -Len(a) <= i /\ i < Len(a)

PyGet(a, i) == IF i < 0 THEN a[Len(a) + i + 1] ELSE a[i + 1]

----------------------------------------------------------------------------
(* class TypeK: constants of the type K thermocouple *)

degrees_interval == 10

min_degrees == -270

max_degrees == 1370

\* min_mv = -6.458
min_mv == Frac(-6458, 1000)

\* max_mv = 54.818
max_mv == Frac(54818, 1000)

\* mutant: list(range(min_degrees, max_degrees, degrees_interval)), the end
\* point left out
degrees_exclusive ==
    [i \in 1..((max_degrees - min_degrees + degrees_interval - 1)
                   \div degrees_interval)
        |-> RInt(min_degrees + (i - 1) * degrees_interval)]

\* list(range(min_degrees, max_degrees+degrees_interval, degrees_interval))
degrees ==
    [i \in 1..((max_degrees + degrees_interval - min_degrees + degrees_interval - 1)
                   \div degrees_interval)
        |-> RInt(min_degrees + (i - 1) * degrees_interval)]

\* the millivolts literal, in microvolts
millivolts_uv ==
    <<-6458, -6441, -6404, -6344, -6262, -6158, -6035, -5891,
      -5730, -5550, -5354, -5141, -4913, -4669, -4411, -4138, -3852, -3554,
      -3243, -2920, -2587, -2243, -1889, -1527, -1156, -778, -392, 0,
      397, 798, 1203, 1612, 2023, 2436, 2851, 3267, 3682, 4096, 4509,
      4920, 5328, 5735, 6138, 6540, 6941, 7340, 7739, 8138, 8539, 8940,
      9343, 9747, 10153, 10561, 10971, 11382, 11795, 12209, 12624, 13040,
      13457, 13874, 14293, 14713, 15133, 15554, 15975, 16397, 16820, 17243,
      17667, 18091, 18516, 18941, 19366, 19792, 20218, 20644, 21071, 21497,
      21924, 22350, 22776, 23203, 23629, 24055, 24480, 24905, 25330, 25755,
      26179, 26602, 27025, 27447, 27869, 28289, 28710, 29129, 29548, 29965,
      30382, 30798, 31213, 31628, 32041, 32453, 32865, 33275, 33685, 34093,
      34501, 34908, 35313, 35718, 36121, 36524, 36925, 37326, 37725, 38124,
      38522, 38918, 39314, 39708, 40101, 40494, 40885, 41276, 41665, 42053,
      42440, 42826, 43211, 43595, 43978, 44359, 44740, 45119, 45497, 45873,
      46249, 46623, 46995, 47367, 47737, 48105, 48473, 48838, 49202, 49565,
      49926, 50286, 50644, 51000, 51355, 51708, 52060, 52410, 52759, 53106,
      53451, 53795, 54138, 54479, 54819>>

millivolts == [i \in 1..Len(millivolts_uv) |-> Frac(millivolts_uv[i], 1000)]

----------------------------------------------------------------------------
(* class Interpolate, over the fields x_interval, x_array, y_array *)

\* mutant: int(x_value/self.x_interval)+28, a quotient truncated toward zero
from_x_idx_trunc(x_value) ==
    LET q == RDiv(x_value, RInt(x_interval))
    IN  (IF q[1] < 0 THEN -((-q[1]) \div q[2]) ELSE q[1] \div q[2]) + 28

\* idx = int(x_value//self.x_interval+28)
from_x_idx(x_value) == RFloorDiv(x_value, RInt(x_interval)) + 28

\* mutant: a remainder that takes the sign of x_value (fmod)
from_x_x_fmod(x_value) ==
    IF x_value[1] < 0
    THEN RNeg(RMod(RNeg(x_value), RInt(10)))
    ELSE RMod(x_value, RInt(10))

\* x = x_value % 10
from_x_x(x_value) == RMod(x_value, RInt(10))

from_x(x_value) ==
    LET idx == from_x_idx(x_value)
        x   == from_x_x(x_value)
    IN  IF ~PyInRange(y_array, idx - 1) \/ ~PyInRange(y_array, idx)
        THEN IndexError
        ELSE LET y1 == PyGet(y_array, idx - 1)
                 y2 == PyGet(y_array, idx)
             IN  Value(RAdd(RMul(RDiv(RSub(y2, y1), RInt(x_interval)), x), y1))

\* bisect.bisect (bisect_right): the binary search of the standard library
RECURSIVE bisect_search(_, _, _, _)
bisect_search(a, x, lo, hi) ==
    IF lo < hi
    THEN LET mid == (lo + hi) \div 2
         IN  IF RLt(x, PyGet(a, mid))
             THEN bisect_search(a, x, lo, mid)
             ELSE bisect_search(a, x, mid + 1, hi)
    ELSE lo

bisect(a, x) == bisect_search(a, x, 0, Len(a))

\* mutant: bisect_left, the insertion point before equal entries
RECURSIVE bisect_left_search(_, _, _, _)
bisect_left_search(a, x, lo, hi) ==
    IF lo < hi
    THEN LET mid == (lo + hi) \div 2
         IN  IF RLt(PyGet(a, mid), x)
             THEN bisect_left_search(a, x, mid + 1, hi)
             ELSE bisect_left_search(a, x, lo, mid)
    ELSE lo

from_y_idx_left(y_value) == bisect_left_search(y_array, y_value, 0, Len(y_array))

\* idx = bisect(self.y_array, y_value)
from_y_idx(y_value) == bisect(y_array, y_value)

\* y2 - y1 is never 0 on a table whose y_array is strictly increasing
from_y(y_value) ==
    LET idx == from_y_idx(y_value)
    IN  IF ~PyInRange(x_array, idx - 1) \/ ~PyInRange(y_array, idx - 1)
           \/ ~PyInRange(y_array, idx)
        THEN IndexError
        ELSE LET offset == PyGet(x_array, idx - 1)
                 y1 == PyGet(y_array, idx - 1)
                 y2 == PyGet(y_array, idx)
                 y  == RSub(y_value, y1)
             IN  Value(RAdd(RMul(RDiv(RInt(x_interval), RSub(y2, y1)), y), offset))

----------------------------------------------------------------------------
(* class ThermocoupleMixin, on TypeK *)

\* mutant: the upper bound accepted, min_degrees <= degrees <= max_degrees
degs_to_mv_closed(d) ==
    IF ~(RLe(RInt(min_degrees), d) /\ RLe(d, RInt(max_degrees)))
    THEN RangeError(d)
    ELSE from_x(d)

degs_to_mv(d) ==
    IF ~(RLe(RInt(min_degrees), d) /\ RLt(d, RInt(max_degrees)))
    THEN RangeError(d)
    ELSE from_x(d)

mv_to_degs(mv) ==
    IF ~(RLe(min_mv, mv) /\ RLt(mv, max_mv))
    THEN RangeError(mv)
    ELSE from_y(mv)

\* mutant: the reference stage's failure is not propagated, the value it carries
\* is used as its voltage
temperature_swallow(reference_temperature, thermocouple_millivolts) ==
    mv_to_degs(RAdd(degs_to_mv(reference_temperature).val, thermocouple_millivolts))

\* mutant: the reference voltage subtracted from the junction voltage
temperature_minus(reference_temperature, thermocouple_millivolts) ==
    LET inner == degs_to_mv(reference_temperature)
    IN  IF inner.kind # "value"
        THEN inner
        ELSE mv_to_degs(RSub(thermocouple_millivolts, inner.val))

\* self.mv_to_degs(self.degs_to_mv(reference_temperature) + thermocouple_millivolts):
\* an exception of the inner call propagates before the sum is formed
temperature(reference_temperature, thermocouple_millivolts) ==
    LET inner == degs_to_mv(reference_temperature)
    IN  IF inner.kind # "value"
        THEN inner
        ELSE mv_to_degs(RAdd(inner.val, thermocouple_millivolts))

----------------------------------------------------------------------------
(* Bounds of the checked inputs *)

\* degree inputs are the multiples of 1/Res degree
Res == 4

\* and, within one degree of min_degrees and of max_degrees, of 1/FineRes degree
FineRes == 40

\* degree inputs reach Margin degrees beyond [min_degrees, max_degrees]
Margin == 2

\* millivolt inputs are the multiples of 1/MvRes millivolt
MvRes == 100

\* and the values up to MvNear microvolts around each table entry and bound
MvNear == 2

\* millivolt inputs reach MvMargin millivolts beyond the table
MvMargin == 1

\* junction voltages of temperature() are the whole millivolts up to JmvMax
JmvMax == 62

\* reference temperatures of temperature() are the multiples of RefStep degrees
RefStep == 7

DegInputs ==
    {Frac(n, Res) : n \in (min_degrees - Margin) * Res .. (max_degrees + Margin) * Res}
    \cup {RAdd(RInt(b), Frac(n, FineRes)) :
              b \in {min_degrees, max_degrees}, n \in -FineRes .. FineRes}

MvInputs ==
    {Frac(n, MvRes) : n \in (RFloor(min_mv) - MvMargin) * MvRes
                             .. (RFloor(max_mv) + 1 + MvMargin) * MvRes}
    \cup {RAdd(b, Frac(n, 1000)) :
              b \in {millivolts[k] : k \in 1..Len(millivolts)} \cup {min_mv, max_mv},
              n \in -MvNear .. MvNear}

RefInputs ==
    {RInt(n) : n \in {m \in (min_degrees - Margin) .. (max_degrees + Margin) :
                         m % RefStep = 0}}

JmvInputs == {RInt(n) : n \in -JmvMax .. JmvMax}

\* main(): temperature(20, 14) and temperature(20, 60)
MainInputs == {<<RInt(20), RInt(14)>>, <<RInt(20), RInt(60)>>}

TempInputs == (RefInputs \X JmvInputs) \cup MainInputs

----------------------------------------------------------------------------
(* One converter, tc = TypeK(), and one call on it *)

Call(name, a, r) == [op |-> name, args |-> a, ret |-> r]

\* TypeK(): ThermocoupleMixin.__init__ builds Interpolate(degrees_interval,
\* degrees, millivolts); Interpolate.__init__ keeps int(x_interval) and the lists
Init ==
    /\ x_interval = degrees_interval
    /\ x_array = degrees
    /\ y_array = millivolts
    /\ calls = << >>

\* each action is one call made by a caller on the fresh converter, its
\* argument drawn from the checked inputs
DegsToMv ==
    /\ calls = << >>
    /\ \E d \in DegInputs :
           calls' = <<Call("degs_to_mv", <<d>>, degs_to_mv(d))>>
    /\ UNCHANGED <<x_interval, x_array, y_array>>

MvToDegs ==
    /\ calls = << >>
    /\ \E mv \in MvInputs :
           calls' = <<Call("mv_to_degs", <<mv>>, mv_to_degs(mv))>>
    /\ UNCHANGED <<x_interval, x_array, y_array>>

Temperature ==
    /\ calls = << >>
    /\ \E t \in TempInputs :
           calls' = <<Call("temperature", t, temperature(t[1], t[2]))>>
    /\ UNCHANGED <<x_interval, x_array, y_array>>

Next == DegsToMv \/ MvToDegs \/ Temperature

Spec == Init /\ [][Next]_vars

----------------------------------------------------------------------------
(* Two successive degs_to_mv calls on one converter, the second at a higher
   temperature: every pair d1 < d2 of multiples of 1/MonoRes degree that lie
   at most MonoGap steps apart *)

MonoRes == 2

MonoGap == 30

MonoInputs ==
    {Frac(n, MonoRes) : n \in (min_degrees - Margin) * MonoRes
                               .. (max_degrees + Margin) * MonoRes}

MonoFirst ==
    /\ calls = << >>
    /\ \E d \in MonoInputs :
           calls' = <<Call("degs_to_mv", <<d>>, degs_to_mv(d))>>
    /\ UNCHANGED <<x_interval, x_array, y_array>>

MonoSecond ==
    /\ Len(calls) = 1
    /\ \E k \in 1 .. MonoGap :
           LET d == RAdd(calls[1].args[1], Frac(k, MonoRes))
           IN  calls' = Append(calls, Call("degs_to_mv", <<d>>, degs_to_mv(d)))
    /\ UNCHANGED <<x_interval, x_array, y_array>>

MonoNext == MonoFirst \/ MonoSecond

SpecMono == Init /\ [][MonoNext]_vars

----------------------------------------------------------------------------
(* Interpolate constructed over other fixed-step tables *)

\* tables have 2 .. MaxN samples
MaxN == 3

\* y samples are whole numbers in 0 .. MaxY
MaxY == 3

\* x inputs are the multiples of 1/GenRes
GenRes == 2

GenIntervals == {2, 5, 10}

GenStarts == {-270, -10, 0}

\* x_array[i] = x0 + i * xi, as the class docstring requires
GenX(x0, xi, n) == [i \in 1..n |-> RInt(x0 + (i - 1) * xi)]

StrictlyIncreasing(a) == \A i \in 1..(Len(a) - 1) : RLt(a[i], a[i + 1])

GenY(n) ==
    {a \in [1..n -> {RInt(v) : v \in 0..MaxY}] : StrictlyIncreasing(a)}

\* Interpolate(x_interval, x_array, y_array): __init__ keeps int(x_interval)
\* and the two lists
InterpInit ==
    /\ x_interval \in GenIntervals
    /\ \E x0 \in GenStarts, n \in 2..MaxN :
           /\ x_array = GenX(x0, x_interval, n)
           /\ y_array \in GenY(n)
    /\ calls = << >>

FromX ==
    /\ calls = << >>
    /\ \E k \in (-x_interval * GenRes) .. (Len(x_array) * x_interval * GenRes) :
           LET x_value == RAdd(x_array[1], Frac(k, GenRes))
           IN  calls' = <<Call("from_x", <<x_value>>, from_x(x_value))>>
    /\ UNCHANGED <<x_interval, x_array, y_array>>

FromY ==
    /\ calls = << >>
    /\ \E k \in (-GenRes) .. ((MaxY + 1) * GenRes) :
           LET y_value == Frac(k, GenRes)
           IN  calls' = <<Call("from_y", <<y_value>>, from_y(y_value))>>
    /\ UNCHANGED <<x_interval, x_array, y_array>>

InterpNext == FromX \/ FromY

SpecInterp == InterpInit /\ [][InterpNext]_vars

----------------------------------------------------------------------------
(* Properties *)

N == Len(x_array)

InDegrees(d) == RLe(RInt(min_degrees), d) /\ RLt(d, RInt(max_degrees))

InMv(mv) == RLe(min_mv, mv) /\ RLt(mv, max_mv)

CallsOf(name) == {i \in 1..Len(calls) : calls[i].op = name}

\* C1: round trip. For every d strictly inside (min_degrees, max_degrees),
\* degs_to_mv(d) returns a millivolt value on which mv_to_degs returns (it does
\* not raise) exactly d.
C1_RoundTrip ==
    \A i \in CallsOf("degs_to_mv") :
        LET d == calls[i].args[1]
        IN  (RLt(RInt(min_degrees), d) /\ RLt(d, RInt(max_degrees)))
            => /\ calls[i].ret.kind = "value"
               /\ mv_to_degs(calls[i].ret.val) = Value(d)

\* C2: degs_to_mv(degrees) raises RangeError (carrying degrees) exactly when
\* degrees is outside [min_degrees, max_degrees), and otherwise returns a value.
C2_DegreesRange ==
    \A i \in CallsOf("degs_to_mv") :
        LET d == calls[i].args[1]
        IN  IF RLe(RInt(min_degrees), d) /\ RLt(d, RInt(max_degrees))
            THEN calls[i].ret.kind = "value"
            ELSE calls[i].ret = RangeError(d)

C2_Witness ==
    /\ calls # << >>
    /\ calls[1] = Call("degs_to_mv", <<RInt(max_degrees)>>,
                       RangeError(RInt(max_degrees)))

\* C3: temperature(reference, junction_mv) raises the error of the first
\* failing stage: RangeError carrying reference when reference is outside
\* [min_degrees, max_degrees), whatever junction_mv is; otherwise RangeError
\* carrying degs_to_mv(reference) + junction_mv when that sum is outside
\* [min_mv, max_mv); otherwise it returns a temperature.  temperature(20, 60)
\* fails carrying 60.798.
C3_FirstFailingStage ==
    \A i \in CallsOf("temperature") :
        LET r == calls[i].args[1]
            j == calls[i].args[2]
        IN  /\ IF ~InDegrees(r)
               THEN calls[i].ret = RangeError(r)
               ELSE LET sum == RAdd(degs_to_mv(r).val, j)
                    IN  IF ~InMv(sum)
                        THEN calls[i].ret = RangeError(sum)
                        ELSE calls[i].ret.kind = "value"
            /\ (r = RInt(20) /\ j = RInt(60))
                   => calls[i].ret = RangeError(Frac(60798, 1000))

C3_Witness ==
    /\ calls # << >>
    /\ calls[1] = Call("temperature", <<RInt(20), RInt(60)>>,
                       RangeError(Frac(60798, 1000)))

\* C4: where no stage fails, temperature(reference, junction_mv) equals
\* mv_to_degs(degs_to_mv(reference) + junction_mv); degs_to_mv(20) is 0.798 mV
\* and temperature(20, 14) is mv_to_degs(14.798), between 360 and 365 degrees.
C4_Compensation ==
    /\ \A i \in CallsOf("temperature") :
           LET r == calls[i].args[1]
               j == calls[i].args[2]
           IN  /\ (InDegrees(r) /\ InMv(RAdd(degs_to_mv(r).val, j)))
                     => calls[i].ret = mv_to_degs(RAdd(degs_to_mv(r).val, j))
               /\ (r = RInt(20) /\ j = RInt(14))
                     => /\ calls[i].ret = mv_to_degs(Frac(14798, 1000))
                        /\ calls[i].ret.kind = "value"
                        /\ RLt(RInt(360), calls[i].ret.val)
                        /\ RLt(calls[i].ret.val, RInt(365))
    /\ \A i \in CallsOf("degs_to_mv") :
           calls[i].args[1] = RInt(20) => calls[i].ret = Value(Frac(798, 1000))

\* temperature(20, 14) returned 360 + 10 * 85/420 = 15205/42 degrees
C4_Witness ==
    /\ calls # << >>
    /\ calls[1] = Call("temperature", <<RInt(20), RInt(14)>>, Value(<<15205, 42>>))

\* C5: exactness at samples. For every table index k whose sample lies in the
\* accepted domain, degs_to_mv(degrees[k]) = millivolts[k] and
\* mv_to_degs(millivolts[k]) = degrees[k], the millivolt entry resolving to the
\* segment whose lower endpoint is that entry.
C5_ExactAtSamples ==
    /\ \A i \in CallsOf("degs_to_mv") :
           \A k \in 1..Len(degrees) :
               (calls[i].args[1] = degrees[k] /\ InDegrees(degrees[k]))
                   => calls[i].ret = Value(millivolts[k])
    /\ \A i \in CallsOf("mv_to_degs") :
           \A k \in 1..Len(millivolts) :
               (calls[i].args[1] = millivolts[k] /\ InMv(millivolts[k]))
                   => /\ calls[i].ret = Value(degrees[k])
                      /\ from_y_idx(millivolts[k]) = k

\* mv_to_degs(millivolts[0]) returned degrees[0]
C5_Witness ==
    /\ calls # << >>
    /\ calls[1] = Call("mv_to_degs", <<millivolts[1]>>, Value(degrees[1]))

\* C6: monotonic output. For d1 < d2 both in [min_degrees, max_degrees),
\* degs_to_mv(d1) <= degs_to_mv(d2).
C6_Monotonic ==
    \A i, j \in CallsOf("degs_to_mv") :
        (/\ RLt(calls[i].args[1], calls[j].args[1])
         /\ InDegrees(calls[i].args[1])
         /\ InDegrees(calls[j].args[1]))
            => /\ calls[i].ret.kind = "value"
               /\ calls[j].ret.kind = "value"
               /\ RLe(calls[i].ret.val, calls[j].ret.val)

\* two negative temperatures in different table segments
C6_Witness ==
    /\ Len(calls) = 2
    /\ calls[1].args[1] = Frac(-25, 2)
    /\ calls[2].args[1] = Frac(-5, 2)
    /\ calls[1].ret.kind = "value"
    /\ calls[2].ret.kind = "value"
    /\ RLt(calls[1].ret.val, calls[2].ret.val)

\* C7: the range bounds are the first and last entries of the table, so that
\* mv_to_degs accepts every millivolt value in [millivolts[0], millivolts[N-1])
\* (and degs_to_mv every degree value in [degrees[0], degrees[N-1])).
C7_BoundsAreTableEnds ==
    /\ \A i \in CallsOf("mv_to_degs") :
           LET mv == calls[i].args[1]
           IN  (RLe(y_array[1], mv) /\ RLt(mv, y_array[N]))
                   => calls[i].ret.kind = "value"
    /\ \A i \in CallsOf("degs_to_mv") :
           LET d == calls[i].args[1]
           IN  (RLe(x_array[1], d) /\ RLt(d, x_array[N]))
                   => calls[i].ret.kind = "value"

\* the shape of the TypeK class's table with n sample points: degrees runs
\* from -270 to -270 + 10 * (n - 1) in steps of 10, millivolts is as long as
\* degrees and strictly increasing
TableShape(n) ==
    /\ Len(degrees) = n
    /\ degrees[1] = RInt(-270)
    /\ \A k \in 1..(Len(degrees) - 1) : degrees[k + 1] = RAdd(degrees[k], RInt(10))
    /\ Len(millivolts) = Len(degrees)
    /\ StrictlyIncreasing(millivolts)

TableShape154 == TableShape(154)

TableShape165 == TableShape(165) /\ degrees[Len(degrees)] = RInt(1370)

\* C8, as stated: the Type K table covers -270..1370 degrees at a 10-degree
\* step with 154 sample points, the millivolts list as long as the degrees
\* list and strictly increasing; it is the table every call works on.
C8_Table154 ==
    /\ x_array = degrees
    /\ y_array = millivolts
    /\ TableShape154

\* C8, amended: the Type K table covers -270..1370 degrees at a 10-degree step
\* with 165 sample points, the millivolts list has the same length as the
\* degrees list, and the millivolts list is strictly increasing.
C8_Table165 ==
    /\ x_array = degrees
    /\ y_array = millivolts
    /\ TableShape165

\* a call interpolated between the last two of the 165 samples
C8_Witness ==
    /\ calls # << >>
    /\ calls[1] = Call("degs_to_mv", <<RInt(1365)>>, Value(Frac(54479 + 54819, 2000)))
    /\ PyGet(y_array, 164) = Frac(54819, 1000)

\* C9: from_x is generic over the table. For every fixed-step table and every
\* x_value in [x_array[0], x_array[N-1]) it returns
\* y[i-1] + (y[i] - y[i-1]) / x_interval * offset, where
\* i = floor((x_value - x_array[0]) / x_interval) + 1 and
\* offset = (x_value - x_array[0]) mod x_interval.
C9_GenericFromX ==
    \A c \in CallsOf("from_x") :
        LET x_value == calls[c].args[1]
            rel == RSub(x_value, x_array[1])
            i == RFloorDiv(rel, RInt(x_interval)) + 1
            offset == RMod(rel, RInt(x_interval))
        IN  (RLe(x_array[1], x_value) /\ RLt(x_value, x_array[N]))
                => calls[c].ret =
                       Value(RAdd(y_array[i],
                                  RMul(RDiv(RSub(y_array[i + 1], y_array[i]),
                                            RInt(x_interval)),
                                       offset)))

\* C10: bracketing. For every input the range checks accept, the bracket index
\* idx of from_x, and of from_y, satisfies 1 <= idx <= N-1, the samples at
\* idx-1 and idx bracket the input (from_y's idx being the smallest with
\* millivolts[idx] > mv), and the result lies in the bracket's output interval.
C10_Bracketing ==
    /\ \A i \in CallsOf("degs_to_mv") :
           LET d == calls[i].args[1]
               idx == from_x_idx(d)
           IN  calls[i].ret.kind # "RangeError"
                   => /\ calls[i].ret.kind = "value"
                      /\ 1 <= idx /\ idx <= N - 1
                      /\ RLe(x_array[idx], d) /\ RLt(d, x_array[idx + 1])
                      /\ RLe(y_array[idx], calls[i].ret.val)
                      /\ RLt(calls[i].ret.val, y_array[idx + 1])
    /\ \A i \in CallsOf("mv_to_degs") :
           LET mv == calls[i].args[1]
               idx == from_y_idx(mv)
           IN  calls[i].ret.kind # "RangeError"
                   => /\ calls[i].ret.kind = "value"
                      /\ 1 <= idx /\ idx <= N - 1
                      /\ RLe(y_array[idx], mv) /\ RLt(mv, y_array[idx + 1])
                      /\ \A k \in 1..idx : RLe(y_array[k], mv)
                      /\ RLe(x_array[idx], calls[i].ret.val)
                      /\ RLt(calls[i].ret.val, x_array[idx + 1])

\* a negative temperature off the sample points, in the bracket [-20, -10)
C10_Witness ==
    /\ calls # << >>
    /\ calls[1].op = "degs_to_mv"
    /\ calls[1].args[1] = Frac(-25, 2)
    /\ from_x_idx(calls[1].args[1]) = 26
    /\ calls[1].ret.kind = "value"

====
